---- MODULE Spec2Model ----
(***************************************************************************)
(* A model of canteen-project/app.py: the Flask handlers of the canteen    *)
(* ordering system as atomic operations on the four tables (user,          *)
(* menu_item, order, feedback) and on the per-browser session cookie.      *)
(*                                                                         *)
(* Text that the code strips or parses (form fields, HH:MM bounds) is a    *)
(* sequence of one-character strings; text that the code only stores and   *)
(* compares (status, payment status, role) is a TLA+ string.  A table is a *)
(* sequence of rows and a row's id is its index (autoincrement keys, no    *)
(* handler deletes a row).  None is the empty sequence for nullable text.  *)
(***************************************************************************)
EXTENDS Integers, Sequences, FiniteSets, TLC

VARIABLES users, menu_items, orders, feedbacks, session, inflight, resp

vars == <<users, menu_items, orders, feedbacks, session, inflight, resp>>

db == <<users, menu_items, orders, feedbacks>>

(***************************************************************************)
(* Bounds of the model.                                                    *)
(***************************************************************************)
NumClients == 1      \* browsers, each with its own session cookie
MaxUsers == 3        \* rows of the user table (the admin included)
MaxOrders == 3       \* rows of the order table (SpecHistory)
MaxLive == 1         \* rows of the order table (Spec, SpecConc)
MaxItems == 2        \* rows of the menu_item table
MaxFeedback == 1     \* rows of the feedback table
NumSeed == 1         \* how many of init_db's sample items are seeded
MaxInflight == 2     \* requests in flight at once (SpecConc)

Clients == 1..NumClients

None == <<>>

(***************************************************************************)
(* Text helpers: str.strip, int(), float(), datetime.strptime("%H:%M").    *)
(***************************************************************************)
Digits == <<"0", "1", "2", "3", "4", "5", "6", "7", "8", "9">>

IsDigit(c) == \E i \in 1..Len(Digits) : Digits[i] = c

DigitVal(c) == (CHOOSE i \in 1..Len(Digits) : Digits[i] = c) - 1

AllDigits(s) == Len(s) > 0 /\ \A i \in 1..Len(s) : IsDigit(s[i])

RECURSIVE NumVal(_)
NumVal(s) == IF s = <<>> THEN 0
             ELSE 10 * NumVal(SubSeq(s, 1, Len(s) - 1)) + DigitVal(s[Len(s)])

RECURSIVE LStrip(_)
LStrip(s) == IF s # <<>> /\ Head(s) = " " THEN LStrip(Tail(s)) ELSE s

RECURSIVE RStrip(_)
RStrip(s) == IF s # <<>> /\ s[Len(s)] = " " THEN RStrip(SubSeq(s, 1, Len(s) - 1)) ELSE s

\* str.strip()
Strip(s) == RStrip(LStrip(s))

\* int(text): surrounding whitespace, an optional sign, decimal digits; anything
\* else raises ValueError (ok = FALSE).
ParseInt(text) ==
    LET s == Strip(text)
        signed == s # <<>> /\ Head(s) \in {"+", "-"}
        body == IF signed THEN Tail(s) ELSE s
    IN  IF AllDigits(body)
        THEN [ok |-> TRUE, val |-> IF signed /\ Head(s) = "-" THEN 0 - NumVal(body) ELSE NumVal(body)]
        ELSE [ok |-> FALSE, val |-> 0]

\* float(text) on the literals the model feeds it: integer literals convert, the
\* empty and the non-numeric text raise ValueError.  Prices are whole rupees.
ParseFloat(text) == ParseInt(text)

\* The position of the first ":" of s, 0 when there is none.
ColonAt(s) == IF \E i \in 1..Len(s) : s[i] = ":"
              THEN CHOOSE i \in 1..Len(s) : s[i] = ":" /\ \A j \in 1..(i - 1) : s[j] # ":"
              ELSE 0

\* datetime.strptime(s, "%H:%M").time() as seconds since midnight: one or two
\* digits of hour (0..23), a colon, one or two digits of minute (0..59) and
\* nothing else; any other text raises ValueError (ok = FALSE).
strptime(s) ==
    LET p == ColonAt(s)
        hh == SubSeq(s, 1, p - 1)
        mm == SubSeq(s, p + 1, Len(s))
    IN  IF /\ p > 0
           /\ Len(hh) \in 1..2 /\ AllDigits(hh) /\ NumVal(hh) <= 23
           /\ Len(mm) \in 1..2 /\ AllDigits(mm) /\ NumVal(mm) <= 59
        THEN [ok |-> TRUE, val |-> NumVal(hh) * 3600 + NumVal(mm) * 60]
        ELSE [ok |-> FALSE, val |-> 0]

\* A wall-clock reading h:m:s as seconds since midnight (datetime.now().time()).
Clock(h, m, s) == h * 3600 + m * 60 + s

\* now_time_str's view of a reading: its HH:MM, as minutes since midnight.
HHMM(cur) == cur \div 60

(***************************************************************************)
(* Rows.                                                                   *)
(***************************************************************************)
\* werkzeug's salted hash: check_password_hash(h, p) holds exactly for the
\* password h was generated from.
generate_password_hash(pwd) == [digest_of |-> pwd]

check_password_hash(h, pwd) == h.digest_of = pwd

User(uname, pwd, role) ==
    [username |-> uname, password_hash |-> generate_password_hash(pwd), role |-> role]

MenuItem(name, price, available, af, at) ==
    [name |-> name, price |-> price, available |-> available,
     available_from |-> af, available_to |-> at]

\* Order(...) as order_form builds it: payment_status takes the column default.
Order(uname, item_name, total_price, pickup, status, token) ==
    [username |-> uname, item_name |-> item_name, total_price |-> total_price,
     pickup_time |-> pickup, status |-> status, payment_status |-> "Unpaid",
     token |-> token]

Feedback(item_id, uname, rating, comment) ==
    [item_id |-> item_id, username |-> uname, rating |-> rating, comment |-> comment]

canteen_admin == <<"c", "a", "n", "t", "e", "e", "n", "_", "a", "d", "m", "i", "n">>

admin123 == <<"a", "d", "m", "i", "n", "1", "2", "3">>

\* init_db's sample rows, in its order.
sample ==
    << MenuItem(<<"C", "h", "i", "c", "k", "e", "n", " ", "B", "i", "r", "y", "a", "n", "i">>, 120, TRUE, <<"1", "1", ":", "0", "0">>, <<"1", "5", ":", "0", "0">>),
       MenuItem(<<"V", "e", "g", " ", "B", "i", "r", "y", "a", "n", "i">>, 100, TRUE, <<"1", "1", ":", "0", "0">>, <<"1", "5", ":", "0", "0">>),
       MenuItem(<<"S", "a", "m", "o", "s", "a">>, 15, TRUE, <<"0", "9", ":", "0", "0">>, <<"1", "7", ":", "0", "0">>),
       MenuItem(<<"E", "g", "g", " ", "M", "a", "n", "c", "h", "u", "r", "i", "a">>, 80, TRUE, <<"1", "1", ":", "0", "0">>, <<"1", "5", ":", "0", "0">>),
       MenuItem(<<"C", "h", "i", "c", "k", "e", "n", " ", "M", "a", "n", "c", "h", "u", "r", "i", "a">>, 100, TRUE, <<"1", "1", ":", "0", "0">>, <<"1", "5", ":", "0", "0">>),
       MenuItem(<<"I", "d", "l", "i">>, 30, TRUE, <<"0", "7", ":", "0", "0">>, <<"1", "0", ":", "3", "0">>),
       MenuItem(<<"D", "o", "s", "a">>, 40, TRUE, <<"0", "7", ":", "0", "0">>, <<"1", "1", ":", "0", "0">>),
       MenuItem(<<"P", "o", "o", "r", "i">>, 35, TRUE, <<"0", "7", ":", "0", "0">>, <<"1", "1", ":", "0", "0">>) >>

\* init_db_users without the "if not admin" test: every start adds the admin.
init_db_users_always(us) == Append(us, User(canteen_admin, admin123, "admin"))

\* init_db on tables us, ms: the default admin when no admin row exists, the
\* sample items when the menu is empty.
init_db_users(us) ==
    IF \E i \in 1..Len(us) : us[i].role = "admin"
    THEN us
    ELSE Append(us, User(canteen_admin, admin123, "admin"))

init_db_menu(ms) ==
    IF Len(ms) = 0 THEN SubSeq(sample, 1, IF NumSeed < Len(sample) THEN NumSeed ELSE Len(sample)) ELSE ms

(***************************************************************************)
(* Session helpers.                                                        *)
(***************************************************************************)
\* The session cookie is a dict; here a record whose username is None when the
\* key is absent (session.clear(), a fresh browser).
EmptySession == [username |-> None, role |-> ""]

is_logged_in(s) == s.username # None

is_admin(s) == s.role = "admin"

\* in_availability without its flag check: the window alone decides.
in_availability_window_only(item, cur) ==
    IF item.available_from # None /\ item.available_to # None
    THEN LET fr == strptime(item.available_from)
             to == strptime(item.available_to)
         IN  IF ~fr.ok \/ ~to.ok THEN "raise"
             ELSE IF fr.val <= cur /\ cur <= to.val THEN "True" ELSE "False"
    ELSE "True"

\* in_availability with the upper bound exclusive (cur < to).
in_availability_exclusive(item, cur) ==
    IF ~item.available THEN "False"
    ELSE IF item.available_from # None /\ item.available_to # None
         THEN LET fr == strptime(item.available_from)
                  to == strptime(item.available_to)
              IN  IF ~fr.ok \/ ~to.ok THEN "raise"
                  ELSE IF fr.val <= cur /\ cur < to.val THEN "True" ELSE "False"
         ELSE "True"

\* in_availability(item) with datetime.now().time() = cur (seconds since
\* midnight).  "raise" is strptime's ValueError leaving the function.
in_availability(item, cur) ==
    IF ~item.available THEN "False"
    ELSE IF item.available_from # None /\ item.available_to # None
         THEN LET fr == strptime(item.available_from)
                  to == strptime(item.available_to)
              IN  IF ~fr.ok \/ ~to.ok THEN "raise"
                  ELSE IF fr.val <= cur /\ cur <= to.val THEN "True" ELSE "False"
         ELSE "True"

\* gen_token(n) when random.choices picks the alphabet positions picks[1..n]:
\* string.ascii_uppercase + string.digits, joined.
token_alphabet ==
    <<"A", "B", "C", "D", "E", "F", "G", "H", "I", "J", "K", "L", "M",
      "N", "O", "P", "Q", "R", "S", "T", "U", "V", "W", "X", "Y", "Z",
      "0", "1", "2", "3", "4", "5", "6", "7", "8", "9">>

\* gen_token one character short (range(n - 1)).
gen_token_short(n, picks) == [i \in 1..(n - 1) |-> token_alphabet[picks[i]]]

gen_token(n, picks) == [i \in 1..n |-> token_alphabet[picks[i]]]

(***************************************************************************)
(* The response of a request: which handler answered and how.              *)
(*   "ok"             the handler ran to its success return                *)
(*   "login"          redirect to the login page (no session, wrong role)  *)
(*   "404"            get_or_404 aborted / "Order not found"               *)
(*   "403"            cancel_order's 403 JSON                              *)
(*   "400"            cancel_order's 400 JSON                              *)
(*   "not_authorized" payment's "Not authorized" flash                     *)
(*   "unavailable"    order_form's "not available" flash                   *)
(*   "invalid"        a flash about missing or malformed form fields       *)
(*   "exists"         register's "Username already exists"                 *)
(*   "noop"           admin_update_order without order_id or status        *)
(*   "failed"         admin_update_order's except branch (rollback)        *)
(*   "500"            an exception left the handler                        *)
(* total and rows carry what order_history hands to its page (the sum and  *)
(* the order ids, newest first), listing what menu hands to its page, and  *)
(* at is the clock reading menu used.                                      *)
(***************************************************************************)
Response(op, code) ==
    [op |-> op, code |-> code, total |-> 0, rows |-> <<>>, listing |-> <<>>, at |-> 0]

Reply(op, code) == resp' = Response(op, code)

\* Model.query.get(id) / get_or_404(id): is there a row with this key.
Has(table, id) == id \in 1..Len(table)

\* User.query.filter_by(username=uname).first(): its index, 0 for None.
find_user(uname) ==
    IF \E i \in 1..Len(users) : users[i].username = uname
    THEN CHOOSE i \in 1..Len(users) :
            users[i].username = uname /\ \A j \in 1..(i - 1) : users[j].username # uname
    ELSE 0

(***************************************************************************)
(* Auth.                                                                   *)
(***************************************************************************)
\* POST /register
register(c, uname_raw, pwd) ==
    LET uname == Strip(uname_raw) IN
    /\ IF uname = <<>> \/ pwd = <<>>
       THEN Reply("register", "invalid") /\ UNCHANGED users
       ELSE IF find_user(uname) # 0
       THEN Reply("register", "exists") /\ UNCHANGED users
       ELSE /\ Len(users) < MaxUsers
            /\ users' = Append(users, User(uname, pwd, "user"))
            /\ Reply("register", "ok")
    /\ UNCHANGED <<menu_items, orders, feedbacks, session, inflight>>

\* POST /login
login(c, uname_raw, pwd) ==
    LET uname == Strip(uname_raw)
        u == find_user(uname)
    IN
    /\ IF u # 0 /\ check_password_hash(users[u].password_hash, pwd)
       THEN /\ session' = [session EXCEPT ![c] = [username |-> users[u].username, role |-> users[u].role]]
            /\ Reply("login", "ok")
       ELSE Reply("login", "invalid") /\ UNCHANGED session
    /\ UNCHANGED <<db, inflight>>

\* GET /logout
logout(c) ==
    /\ session' = [session EXCEPT ![c] = EmptySession]
    /\ Reply("logout", "ok")
    /\ UNCHANGED <<db, inflight>>

(***************************************************************************)
(* Student.                                                                *)
(***************************************************************************)
AM == <<"A", "M">>

PM == <<"P", "M">>

\* POST /order/<item_id> with the clock reading cur, the form fields order_time
\* and order_ampm, and the positions picks drawn by gen_token's random.choices.
order_form(c, item_id, cur, time_raw, ampm_raw, picks) ==
    LET s == session[c]
        time_val == Strip(time_raw)
        ampm == Strip(ampm_raw)
        pickup == time_val \o <<" ">> \o ampm
    IN
    /\ IF ~is_logged_in(s) \/ is_admin(s)
       THEN Reply("order_form", "login") /\ UNCHANGED orders
       ELSE IF ~Has(menu_items, item_id)
       THEN Reply("order_form", "404") /\ UNCHANGED orders
       ELSE IF in_availability(menu_items[item_id], cur) = "raise"
       THEN Reply("order_form", "500") /\ UNCHANGED orders
       ELSE IF in_availability(menu_items[item_id], cur) # "True"
       THEN Reply("order_form", "unavailable") /\ UNCHANGED orders
       ELSE IF time_val = <<>> \/ ampm \notin {AM, PM}
       THEN Reply("order_form", "invalid") /\ UNCHANGED orders
       ELSE /\ orders' = Append(orders,
                   Order(s.username, menu_items[item_id].name, menu_items[item_id].price,
                         pickup, "Pending", gen_token(6, picks)))
            /\ Reply("order_form", "ok")
    /\ UNCHANGED <<users, menu_items, feedbacks, session, inflight>>

\* POST /payment/<order_id>; method is only echoed in the flash message.
payment(c, order_id, method) ==
    LET s == session[c] IN
    /\ IF ~is_logged_in(s) \/ is_admin(s)
       THEN Reply("payment", "login") /\ UNCHANGED orders
       ELSE IF ~Has(orders, order_id)
       THEN Reply("payment", "404") /\ UNCHANGED orders
       ELSE IF orders[order_id].username # s.username /\ ~is_admin(s)
       THEN Reply("payment", "not_authorized") /\ UNCHANGED orders
       ELSE /\ orders' = [orders EXCEPT ![order_id].payment_status = "Paid"]
            /\ Reply("payment", "ok")
    /\ UNCHANGED <<users, menu_items, feedbacks, session, inflight>>

\* The rows of the order table whose owner is uname, as indices, newest first
\* (filter_by(username=...).order_by(created_at.desc())).
RECURSIVE orders_of(_, _)
orders_of(uname, n) ==
    IF n = 0 THEN <<>>
    ELSE IF orders[n].username = uname
         THEN <<n>> \o orders_of(uname, n - 1)
         ELSE orders_of(uname, n - 1)

\* total_spent without the payment_status filter.
RECURSIVE total_spent_unfiltered(_)
total_spent_unfiltered(rows) ==
    IF rows = <<>> THEN 0
    ELSE orders[Head(rows)].total_price + total_spent_unfiltered(Tail(rows))

\* sum(o.total_price for o in rows if o.payment_status == "Paid")
RECURSIVE total_spent(_)
total_spent(rows) ==
    IF rows = <<>> THEN 0
    ELSE (IF orders[Head(rows)].payment_status = "Paid" THEN orders[Head(rows)].total_price ELSE 0)
         + total_spent(Tail(rows))

\* GET /order/history
order_history(c) ==
    LET s == session[c] IN
    /\ IF ~is_logged_in(s) \/ is_admin(s)
       THEN Reply("order_history", "login")
       ELSE resp' = [Response("order_history", "ok") EXCEPT
                        !.total = total_spent(orders_of(s.username, Len(orders))),
                        !.rows = orders_of(s.username, Len(orders))]
    /\ UNCHANGED <<db, session, inflight>>

\* cancel_order without the status check: any status is cancelled.
cancel_order_any_status(c, order_id) ==
    LET s == session[c] IN
    /\ IF ~is_logged_in(s) \/ is_admin(s)
       THEN Reply("cancel_order", "login") /\ UNCHANGED orders
       ELSE IF ~Has(orders, order_id)
       THEN Reply("cancel_order", "404") /\ UNCHANGED orders
       ELSE IF orders[order_id].username # s.username
       THEN Reply("cancel_order", "403") /\ UNCHANGED orders
       ELSE /\ orders' = [orders EXCEPT ![order_id].status = "Cancelled"]
            /\ Reply("cancel_order", "ok")
    /\ UNCHANGED <<users, menu_items, feedbacks, session, inflight>>

\* cancel_order that also takes the payment back (payment_status = "Unpaid").
cancel_order_refund(c, order_id) ==
    LET s == session[c] IN
    /\ IF ~is_logged_in(s) \/ is_admin(s)
       THEN Reply("cancel_order", "login") /\ UNCHANGED orders
       ELSE IF ~Has(orders, order_id)
       THEN Reply("cancel_order", "404") /\ UNCHANGED orders
       ELSE IF orders[order_id].username # s.username
       THEN Reply("cancel_order", "403") /\ UNCHANGED orders
       ELSE IF orders[order_id].status # "Pending"
       THEN Reply("cancel_order", "400") /\ UNCHANGED orders
       ELSE /\ orders' = [orders EXCEPT ![order_id].status = "Cancelled",
                                        ![order_id].payment_status = "Unpaid"]
            /\ Reply("cancel_order", "ok")
    /\ UNCHANGED <<users, menu_items, feedbacks, session, inflight>>

\* cancel_order that deletes the row instead of marking it Cancelled.
cancel_order_delete(c, order_id) ==
    LET s == session[c] IN
    /\ IF ~is_logged_in(s) \/ is_admin(s)
       THEN Reply("cancel_order", "login") /\ UNCHANGED orders
       ELSE IF ~Has(orders, order_id)
       THEN Reply("cancel_order", "404") /\ UNCHANGED orders
       ELSE IF orders[order_id].username # s.username
       THEN Reply("cancel_order", "403") /\ UNCHANGED orders
       ELSE IF orders[order_id].status # "Pending"
       THEN Reply("cancel_order", "400") /\ UNCHANGED orders
       ELSE /\ orders' = SubSeq(orders, 1, order_id - 1) \o SubSeq(orders, order_id + 1, Len(orders))
            /\ Reply("cancel_order", "ok")
    /\ UNCHANGED <<users, menu_items, feedbacks, session, inflight>>

\* cancel_order without the owner check.
cancel_order_any_owner(c, order_id) ==
    LET s == session[c] IN
    /\ IF ~is_logged_in(s) \/ is_admin(s)
       THEN Reply("cancel_order", "login") /\ UNCHANGED orders
       ELSE IF ~Has(orders, order_id)
       THEN Reply("cancel_order", "404") /\ UNCHANGED orders
       ELSE IF orders[order_id].status # "Pending"
       THEN Reply("cancel_order", "400") /\ UNCHANGED orders
       ELSE /\ orders' = [orders EXCEPT ![order_id].status = "Cancelled"]
            /\ Reply("cancel_order", "ok")
    /\ UNCHANGED <<users, menu_items, feedbacks, session, inflight>>

\* POST /order/cancel/<order_id>
cancel_order(c, order_id) ==
    LET s == session[c] IN
    /\ IF ~is_logged_in(s) \/ is_admin(s)
       THEN Reply("cancel_order", "login") /\ UNCHANGED orders
       ELSE IF ~Has(orders, order_id)
       THEN Reply("cancel_order", "404") /\ UNCHANGED orders
       ELSE IF orders[order_id].username # s.username
       THEN Reply("cancel_order", "403") /\ UNCHANGED orders
       ELSE IF orders[order_id].status # "Pending"
       THEN Reply("cancel_order", "400") /\ UNCHANGED orders
       ELSE /\ orders' = [orders EXCEPT ![order_id].status = "Cancelled"]
            /\ Reply("cancel_order", "ok")
    /\ UNCHANGED <<users, menu_items, feedbacks, session, inflight>>

(***************************************************************************)
(* Admin.                                                                  *)
(***************************************************************************)
\* POST /admin/menu
admin_menu(c, name_raw, price_raw, af_raw, at_raw) ==
    LET s == session[c]
        name == Strip(name_raw)
        price == Strip(price_raw)
        af == Strip(af_raw)      \* "... .strip() or None": the empty text is None
        at == Strip(at_raw)
    IN
    /\ IF ~is_logged_in(s) \/ ~is_admin(s)
       THEN Reply("admin_menu", "login") /\ UNCHANGED menu_items
       ELSE IF name = <<>> \/ price = <<>>
       THEN Reply("admin_menu", "invalid") /\ UNCHANGED menu_items
       ELSE IF ~ParseFloat(price).ok
       THEN Reply("admin_menu", "invalid") /\ UNCHANGED menu_items
       ELSE /\ Len(menu_items) < MaxItems
            /\ menu_items' = Append(menu_items, MenuItem(name, ParseFloat(price).val, TRUE, af, at))
            /\ Reply("admin_menu", "ok")
    /\ UNCHANGED <<users, orders, feedbacks, session, inflight>>

\* admin_toggle_menu that switches the item off instead of flipping the flag.
admin_toggle_menu_off(c, item_id) ==
    LET s == session[c] IN
    /\ IF ~is_logged_in(s) \/ ~is_admin(s)
       THEN Reply("admin_toggle_menu", "login") /\ UNCHANGED menu_items
       ELSE IF ~Has(menu_items, item_id)
       THEN Reply("admin_toggle_menu", "404") /\ UNCHANGED menu_items
       ELSE /\ menu_items' = [menu_items EXCEPT ![item_id].available = FALSE]
            /\ Reply("admin_toggle_menu", "ok")
    /\ UNCHANGED <<users, orders, feedbacks, session, inflight>>

\* GET /admin/menu/toggle/<item_id>
admin_toggle_menu(c, item_id) ==
    LET s == session[c] IN
    /\ IF ~is_logged_in(s) \/ ~is_admin(s)
       THEN Reply("admin_toggle_menu", "login") /\ UNCHANGED menu_items
       ELSE IF ~Has(menu_items, item_id)
       THEN Reply("admin_toggle_menu", "404") /\ UNCHANGED menu_items
       ELSE /\ menu_items' = [menu_items EXCEPT ![item_id].available = ~menu_items[item_id].available]
            /\ Reply("admin_toggle_menu", "ok")
    /\ UNCHANGED <<users, orders, feedbacks, session, inflight>>

\* admin_update_order with a transition guard: only a Pending order is updated.
admin_update_order_from_pending(c, oid, new_status) ==
    LET s == session[c] IN
    /\ IF ~is_logged_in(s) \/ ~is_admin(s)
       THEN Reply("admin_update_order", "login") /\ UNCHANGED orders
       ELSE IF oid = None \/ new_status = ""
       THEN Reply("admin_update_order", "noop") /\ UNCHANGED orders
       ELSE IF ~ParseInt(oid).ok
       THEN Reply("admin_update_order", "failed") /\ UNCHANGED orders
       ELSE IF ~Has(orders, ParseInt(oid).val)
       THEN Reply("admin_update_order", "404") /\ UNCHANGED orders
       ELSE IF orders[ParseInt(oid).val].status # "Pending"
       THEN Reply("admin_update_order", "400") /\ UNCHANGED orders
       ELSE /\ orders' = [orders EXCEPT ![ParseInt(oid).val].status = new_status]
            /\ Reply("admin_update_order", "ok")
    /\ UNCHANGED <<users, menu_items, feedbacks, session, inflight>>

\* POST /admin/orders/update with the form fields order_id (text, None when
\* absent) and status (a string, "" when absent or empty).
admin_update_order(c, oid, new_status) ==
    LET s == session[c] IN
    /\ IF ~is_logged_in(s) \/ ~is_admin(s)
       THEN Reply("admin_update_order", "login") /\ UNCHANGED orders
       ELSE IF oid = None \/ new_status = ""
       THEN Reply("admin_update_order", "noop") /\ UNCHANGED orders
       ELSE IF ~ParseInt(oid).ok
       THEN Reply("admin_update_order", "failed") /\ UNCHANGED orders
       ELSE IF ~Has(orders, ParseInt(oid).val)
       THEN Reply("admin_update_order", "404") /\ UNCHANGED orders
       ELSE /\ orders' = [orders EXCEPT ![ParseInt(oid).val].status = new_status]
            /\ Reply("admin_update_order", "ok")
    /\ UNCHANGED <<users, menu_items, feedbacks, session, inflight>>

(***************************************************************************)
(* Feedback.                                                               *)
(***************************************************************************)
\* submit_feedback as an upsert: an earlier rating by the same user for the
\* same item is replaced instead of a row being added.
submit_feedback_upsert(c, item_id, rating_raw, comment_raw) ==
    LET s == session[c]
        rating == IF rating_raw = None THEN [ok |-> TRUE, val |-> 0] ELSE ParseInt(rating_raw)
        old == {i \in 1..Len(feedbacks) :
                   feedbacks[i].item_id = item_id /\ feedbacks[i].username = s.username}
    IN
    /\ IF ~is_logged_in(s) \/ is_admin(s)
       THEN Reply("submit_feedback", "login") /\ UNCHANGED feedbacks
       ELSE IF ~rating.ok
       THEN Reply("submit_feedback", "500") /\ UNCHANGED feedbacks
       ELSE IF rating.val < 1 \/ rating.val > 5
       THEN Reply("submit_feedback", "invalid") /\ UNCHANGED feedbacks
       ELSE /\ feedbacks' = IF old # {}
                            THEN [feedbacks EXCEPT ![CHOOSE i \in old : TRUE].rating = rating.val]
                            ELSE Append(feedbacks, Feedback(item_id, s.username, rating.val, Strip(comment_raw)))
            /\ Reply("submit_feedback", "ok")
    /\ UNCHANGED <<users, menu_items, orders, session, inflight>>

\* POST /feedback/<item_id>; rating_raw is None when the field is absent
\* (request.form.get('rating', 0)).
submit_feedback(c, item_id, rating_raw, comment_raw) ==
    LET s == session[c]
        rating == IF rating_raw = None THEN [ok |-> TRUE, val |-> 0] ELSE ParseInt(rating_raw)
    IN
    /\ IF ~is_logged_in(s) \/ is_admin(s)
       THEN Reply("submit_feedback", "login") /\ UNCHANGED feedbacks
       ELSE IF ~rating.ok
       THEN Reply("submit_feedback", "500") /\ UNCHANGED feedbacks
       ELSE IF rating.val < 1 \/ rating.val > 5
       THEN Reply("submit_feedback", "invalid") /\ UNCHANGED feedbacks
       ELSE /\ feedbacks' = Append(feedbacks, Feedback(item_id, s.username, rating.val, Strip(comment_raw)))
            /\ Reply("submit_feedback", "ok")
    /\ UNCHANGED <<users, menu_items, orders, session, inflight>>

(***************************************************************************)
(* The menu page.                                                          *)
(***************************************************************************)
\* The characters of the model's texts in code-point order (the store's binary
\* collation, which order_by(MenuItem.name) uses).
CodePoints ==
    <<" ", "+", "-", "0", "1", "2", "3", "4", "5", "6", "7", "8", "9", ":",
      "A", "B", "C", "D", "E", "F", "G", "H", "I", "J", "K", "L", "M",
      "N", "O", "P", "Q", "R", "S", "T", "U", "V", "W", "X", "Y", "Z", "_",
      "a", "b", "c", "d", "e", "f", "g", "h", "i", "j", "k", "l", "m",
      "n", "o", "p", "q", "r", "s", "t", "u", "v", "w", "x", "y", "z">>

Ord(ch) == CHOOSE i \in 1..Len(CodePoints) : CodePoints[i] = ch

\* a < b for texts, by code point.
RECURSIVE TextLess(_, _)
TextLess(a, b) ==
    IF b = <<>> THEN FALSE
    ELSE IF a = <<>> THEN TRUE
    ELSE IF Head(a) # Head(b) THEN Ord(Head(a)) < Ord(Head(b))
    ELSE TextLess(Tail(a), Tail(b))

\* MenuItem.query.order_by(MenuItem.name).all() as item ids; rows of one name
\* come in id order.
by_name ==
    LET n == Len(menu_items)
        before(i, j) == \/ TextLess(menu_items[i].name, menu_items[j].name)
                        \/ menu_items[i].name = menu_items[j].name /\ i < j
        rank(i) == Cardinality({j \in 1..n : before(j, i)}) + 1
    IN  [k \in 1..n |-> CHOOSE i \in 1..n : rank(i) = k]

\* avg_rating with the quotient cut to two decimals instead of rounded.
avg_rating_floor(item_id) ==
    LET rs == {i \in 1..Len(feedbacks) : feedbacks[i].item_id = item_id}
        RECURSIVE sum(_)
        sum(S) == IF S = {} THEN 0
                  ELSE LET i == CHOOSE x \in S : TRUE IN feedbacks[i].rating + sum(S \ {i})
        n == Cardinality(rs)
    IN  IF n = 0 THEN None ELSE <<(100 * sum(rs)) \div n>>

\* round(sum(r.rating for r in ratings) / len(ratings), 2) in hundredths for the
\* feedback rows of item_id; None when there is none.  Below eight ratings no
\* quotient lies halfway between two hundredths, so round's tie rule is idle.
avg_rating(item_id) ==
    LET rs == {i \in 1..Len(feedbacks) : feedbacks[i].item_id = item_id}
        RECURSIVE sum(_)
        sum(S) == IF S = {} THEN 0
                  ELSE LET i == CHOOSE x \in S : TRUE IN feedbacks[i].rating + sum(S \ {i})
        n == Cardinality(rs)
    IN  IF n = 0 THEN None ELSE <<(200 * sum(rs) + n) \div (2 * n)>>

\* GET /menu with the clock reading cur.
menu(c, cur) ==
    LET s == session[c]
        ids == by_name
    IN
    /\ IF ~is_logged_in(s) \/ is_admin(s)
       THEN Reply("menu", "login")
       ELSE IF \E k \in 1..Len(ids) : in_availability(menu_items[ids[k]], cur) = "raise"
       THEN Reply("menu", "500")
       ELSE resp' = [Response("menu", "ok") EXCEPT
                        !.at = cur,
                        !.listing = [k \in 1..Len(ids) |->
                            [id |-> ids[k],
                             available_now |-> in_availability(menu_items[ids[k]], cur) = "True",
                             avg_rating |-> avg_rating(ids[k])]]]
    /\ UNCHANGED <<db, session, inflight>>

(***************************************************************************)
(* The initial state: init_db on an empty database, no browser logged in,  *)
(* no request in flight.                                                   *)
(***************************************************************************)
Init ==
    /\ users = init_db_users(<<>>)
    /\ menu_items = init_db_menu(<<>>)
    /\ orders = <<>>
    /\ feedbacks = <<>>
    /\ session = [c \in Clients |-> EmptySession]
    /\ inflight = <<>>
    /\ resp = Response("init_db", "ok")

\* init_db run again on the stored tables (a restart of the server).
init_db ==
    /\ users' = init_db_users(users)
    /\ menu_items' = init_db_menu(menu_items)
    /\ Reply("init_db", "ok")
    /\ UNCHANGED <<orders, feedbacks, session, inflight>>

(***************************************************************************)
(* The requests the environment sends.                                     *)
(***************************************************************************)
alice == <<"a", "l", "i", "c", "e">>

bob == <<"b", "o", "b">>

pw == <<"p", "w">>

Tea == <<"T", "e", "a">>

HalfPastTwelve == <<"1", "2", ":", "3", "0">>

\* A key as the decimal text of a form field.
IdText(i) == IF i < 10 THEN <<Digits[i + 1]>> ELSE <<Digits[(i \div 10) + 1], Digits[(i % 10) + 1]>>

KnownStatuses == {"Pending", "Preparing", "Ready", "Completed", "Cancelled"}

\* What random.choices may draw for a token: six alphabet positions.
TokenPicks(K) == {[i \in 1..6 |-> ((7 * i + k) % Len(token_alphabet)) + 1] : k \in K}

RegisterInputs == {<<alice, pw>>, <<bob, pw>>, <<<<" ">>, pw>>, <<alice, <<>>>>}

LoginInputs ==
    {<<canteen_admin, admin123>>, <<alice, pw>>, <<<<" ", "b", "o", "b">>, pw>>, <<alice, admin123>>}

\* <<item id, clock reading, order_time, order_ampm>>
OrderInputs(ids) ==
    {<<i, cur, HalfPastTwelve, PM>> : i \in ids, cur \in {Clock(11, 0, 0), Clock(15, 0, 30)}}
    \cup {<<1, Clock(11, 0, 0), <<" ">>, PM>>, <<1, Clock(11, 0, 0), HalfPastTwelve, <<"X", "M">>>>}

\* <<order_id, status>> of the admin's form
UpdateInputs(ids) ==
    {<<IdText(o), st>> : o \in ids, st \in KnownStatuses \cup {"", "Served"}}
    \cup {<<None, "Ready">>, <<<<"x">>, "Ready">>}

\* <<name, price, available_from, available_to>>
MenuInputs == {<<Tea, <<"1", "0">>, None, None>>, <<<<" ">>, <<"1", "0">>, None, None>>, <<Tea, <<"x">>, None, None>>}

RatingInputs == {None, <<"5">>, <<"6">>, <<"x">>}

Next ==
    \/ init_db
    \/ \E c \in Clients, r \in RegisterInputs : register(c, r[1], r[2])
    \/ \E c \in Clients, r \in LoginInputs : login(c, r[1], r[2])
    \/ \E c \in Clients : logout(c)
    \/ \E c \in Clients, r \in OrderInputs(1..(MaxItems + 1)), picks \in TokenPicks({0}) :
          /\ Len(orders) < MaxLive
          /\ order_form(c, r[1], r[2], r[3], r[4], picks)
    \/ \E c \in Clients, o \in 1..(MaxLive + 1) : payment(c, o, "Card")
    \/ \E c \in Clients, o \in 1..(MaxLive + 1) : cancel_order(c, o)
    \/ \E c \in Clients, r \in UpdateInputs(1..(MaxLive + 1)) : admin_update_order(c, r[1], r[2])
    \/ \E c \in Clients, i \in 1..(MaxItems + 1) : admin_toggle_menu(c, i)
    \/ \E c \in Clients, r \in MenuInputs : admin_menu(c, r[1], r[2], r[3], r[4])
    \/ \E c \in Clients, r \in RatingInputs :
          /\ Len(feedbacks) < MaxFeedback
          /\ submit_feedback(c, 1, r, <<>>)

Spec == Init /\ [][Next]_vars

(***************************************************************************)
(* Properties of the order lifecycle (Spec).                               *)
(***************************************************************************)
\* The session of client c is a logged-in student who owns order o.
OwnerActs(c, o) ==
    /\ is_logged_in(session[c])
    /\ ~is_admin(session[c])
    /\ orders[o].username = session[c].username

\* C1: cancellation is terminal: an order whose status is Cancelled keeps the
\* status Cancelled in every later state, whatever operation runs.
C1_CancelledIsTerminal ==
    [][\A o \in 1..Len(orders) :
          orders[o].status = "Cancelled" => orders'[o].status = "Cancelled"]_vars

\* C2: for an existing order and its owner as actor, cancelOrder succeeds iff
\* the status is Pending at call time and then sets it to Cancelled; in every
\* other status it answers 400 (InvalidState) and leaves the orders unchanged,
\* so a second cancel after a successful one fails and the order stays Cancelled.
C2_CancelIffPending ==
    [][resp'.op = "cancel_order" =>
          \A c \in Clients, o \in 1..Len(orders) :
             (cancel_order(c, o) /\ OwnerActs(c, o)) =>
                IF orders[o].status = "Pending"
                THEN /\ resp'.code = "ok"
                     /\ orders' = [orders EXCEPT ![o].status = "Cancelled"]
                ELSE /\ resp'.code = "400"
                     /\ orders' = orders]_vars

\* C2's case: the owner's cancel was refused on an order that is Cancelled.
C2_Witness ==
    /\ resp.op = "cancel_order" /\ resp.code = "400"
    /\ \E o \in 1..Len(orders) : orders[o].status = "Cancelled"

\* C3: recordPayment on an existing order succeeds and sets payment_status to
\* Paid whenever the acting user is the owner or an admin, and is refused as
\* not authorized, the orders unchanged, exactly when the acting user is neither.
C3_PaymentByOwnerOrAdmin ==
    [][resp'.op = "payment" =>
          \A c \in Clients, o \in 1..Len(orders) :
             (payment(c, o, "Card") /\ is_logged_in(session[c])) =>
                IF orders[o].username = session[c].username \/ is_admin(session[c])
                THEN /\ resp'.code = "ok"
                     /\ orders' = [orders EXCEPT ![o].payment_status = "Paid"]
                ELSE /\ resp'.code = "not_authorized"
                     /\ orders' = orders]_vars

\* C4: every order's status is one of the five known values.
C4_StatusKnown == \A o \in 1..Len(orders) : orders[o].status \in KnownStatuses

\* The Availability Evaluator rejects item at the reading cur: the flag is
\* false, or both bounds are HH:MM times and cur lies outside them.
Rejects(item, cur) ==
    \/ ~item.available
    \/ /\ item.available_from # None /\ item.available_to # None
       /\ strptime(item.available_from).ok /\ strptime(item.available_to).ok
       /\ ~(strptime(item.available_from).val <= cur /\ cur <= strptime(item.available_to).val)

\* C6: placeOrder by a student on an existing item that the evaluator rejects
\* at call time answers "unavailable" and leaves the orders unchanged, whatever
\* pickup time was supplied.
C6_UnavailableNoOrder ==
    [][resp'.op = "order_form" =>
          \A c \in Clients, r \in OrderInputs(1..Len(menu_items)), picks \in TokenPicks({0}) :
             (/\ order_form(c, r[1], r[2], r[3], r[4], picks)
              /\ is_logged_in(session[c]) /\ ~is_admin(session[c])
              /\ Rejects(menu_items[r[1]], r[2])) =>
                resp'.code = "unavailable" /\ orders' = orders]_vars

\* C6's case: an order was refused as unavailable though every flag is true
\* (the clock reading lay outside the item's window).
C6_Witness ==
    /\ resp.op = "order_form" /\ resp.code = "unavailable"
    /\ \A i \in 1..Len(menu_items) : menu_items[i].available

\* C8: every order's payment_status is Unpaid or Paid, a Paid order stays
\* Paid, and only the payment handler changes a payment_status.
C8_PaymentOnlyUnpaidToPaid ==
    [][/\ Len(orders') >= Len(orders)
       /\ \A o \in 1..Len(orders') : orders'[o].payment_status \in {"Unpaid", "Paid"}
       /\ \A o \in 1..Len(orders) :
             /\ orders[o].payment_status = "Paid" => orders'[o].payment_status = "Paid"
             /\ orders'[o].payment_status # orders[o].payment_status => resp'.op = "payment"]_vars

\* C8's case: a Paid order after its status was changed by the admin.
C8_Witness ==
    /\ resp.op = "admin_update_order" /\ resp.code = "ok"
    /\ \E o \in 1..Len(orders) : orders[o].payment_status = "Paid" /\ orders[o].status = "Completed"

(***************************************************************************)
(* Placing, paying and listing orders (SpecHistory): two students, several *)
(* orders, no status changes.                                              *)
(***************************************************************************)
NextHistory ==
    \/ \E c \in Clients, r \in RegisterInputs : register(c, r[1], r[2])
    \/ \E c \in Clients, r \in LoginInputs : login(c, r[1], r[2])
    \/ \E c \in Clients : logout(c)
    \/ \E c \in Clients, r \in OrderInputs(1..(MaxItems + 1)), picks \in TokenPicks({0}) :
          /\ Len(orders) < MaxOrders
          /\ order_form(c, r[1], r[2], r[3], r[4], picks)
    \/ \E c \in Clients, o \in 1..(MaxOrders + 1) : payment(c, o, "Card")
    \/ \E c \in Clients : order_history(c)
    \/ \E c \in Clients, r \in MenuInputs : admin_menu(c, r[1], r[2], r[3], r[4])

SpecHistory == Init /\ [][NextHistory]_vars

\* The 36 characters A-Z and 0-9.
AlphaNum ==
    {"A", "B", "C", "D", "E", "F", "G", "H", "I", "J", "K", "L", "M", "N", "O", "P", "Q",
     "R", "S", "T", "U", "V", "W", "X", "Y", "Z", "0", "1", "2", "3", "4", "5", "6", "7", "8", "9"}

\* C7: a successful placeOrder adds exactly one order, owned by the acting
\* student, Pending and Unpaid, with the item's name and price at call time and
\* a token of exactly six characters of A-Z and 0-9; every earlier order is
\* left as it was.
C7_PlaceOrderAddsOne ==
    [][(resp'.op = "order_form" /\ resp'.code = "ok") =>
          \A c \in Clients, r \in OrderInputs(1..Len(menu_items)), picks \in TokenPicks({0}) :
             order_form(c, r[1], r[2], r[3], r[4], picks) =>
                LET new == orders'[Len(orders')] IN
                /\ Len(orders') = Len(orders) + 1
                /\ \A o \in 1..Len(orders) : orders'[o] = orders[o]
                /\ is_logged_in(session[c]) /\ ~is_admin(session[c])
                /\ new.username = session[c].username
                /\ new.status = "Pending"
                /\ new.payment_status = "Unpaid"
                /\ new.item_name = menu_items[r[1]].name
                /\ new.total_price = menu_items[r[1]].price
                /\ Len(new.token) = 6
                /\ \A k \in 1..Len(new.token) : new.token[k] \in AlphaNum]_vars

\* C7's case: an order was placed while an earlier, already paid one existed.
C7_Witness ==
    /\ resp.op = "order_form" /\ resp.code = "ok"
    /\ Len(orders) = 2
    /\ orders[1].payment_status = "Paid"
    /\ orders[2].item_name # orders[1].item_name

\* The sum of total_price over the Paid orders among the order ids S.
RECURSIVE SumPaid(_)
SumPaid(S) ==
    IF S = {} THEN 0
    ELSE LET o == CHOOSE x \in S : TRUE
         IN  (IF orders[o].payment_status = "Paid" THEN orders[o].total_price ELSE 0)
             + SumPaid(S \ {o})

\* C10: the total the history page shows to a user is the sum of total_price
\* over exactly the orders that user owns and whose payment_status is Paid.
C10_TotalSpentIsPaidSum ==
    [][(resp'.op = "order_history" /\ resp'.code = "ok") =>
          \A c \in Clients :
             order_history(c) =>
                resp'.total = SumPaid({o \in 1..Len(orders) : orders[o].username = session[c].username})]_vars

\* C10's case: the page summed two Paid orders (120 and 10) and skipped an
\* Unpaid order of the same user.
C10_Witness ==
    /\ resp.op = "order_history" /\ resp.code = "ok"
    /\ Len(resp.rows) = 3
    /\ resp.total = 130
    /\ \E o \in 1..Len(orders) : orders[o].payment_status = "Unpaid"

(***************************************************************************)
(* The availability evaluator on the menu page (SpecAvail): the admin adds *)
(* items with every kind of window and toggles flags, a student opens the  *)
(* menu at clock readings around the bounds.                               *)
(***************************************************************************)
Eleven == <<"1", "1", ":", "0", "0">>

Fifteen == <<"1", "5", ":", "0", "0">>

BoundInputs == {None, Eleven, Fifteen, <<"2", "5", ":", "0", "0">>}

ClockReadings ==
    {Clock(10, 59, 59), Clock(11, 0, 0), Clock(11, 0, 30), Clock(12, 0, 0),
     Clock(15, 0, 0), Clock(15, 0, 30), Clock(15, 1, 0)}

NextAvail ==
    \/ \E c \in Clients, r \in RegisterInputs : register(c, r[1], r[2])
    \/ \E c \in Clients, r \in LoginInputs : login(c, r[1], r[2])
    \/ \E c \in Clients : logout(c)
    \/ \E c \in Clients, af \in BoundInputs, at \in BoundInputs : admin_menu(c, Tea, <<"1", "0">>, af, at)
    \/ \E c \in Clients, i \in 1..(MaxItems + 1) : admin_toggle_menu(c, i)
    \/ \E c \in Clients, cur \in ClockReadings : menu(c, cur)

SpecAvail == Init /\ [][NextAvail]_vars

BothSet(item) == item.available_from # None /\ item.available_to # None

\* C9 as claimed: on the menu page every item's availability equals flag AND
\* (both bounds set => available_from <= timeOfDay(now) <= available_to); a
\* false flag is never available, an unset bound is no restriction, every
\* instant whose HH:MM equals a bound of a window is available, and a window
\* with available_from > available_to matches at no instant.
C9_AvailabilityAsClaimed ==
    (resp.op = "menu" /\ resp.code = "ok") =>
       \A k \in 1..Len(resp.listing) :
          LET e == resp.listing[k]
              it == menu_items[e.id]
              now == resp.at
              fr == strptime(it.available_from).val
              to == strptime(it.available_to).val
          IN  /\ e.available_now = (it.available /\ (BothSet(it) => (fr <= now /\ now <= to)))
              /\ ~it.available => ~e.available_now
              /\ (it.available /\ ~BothSet(it)) => e.available_now
              /\ (it.available /\ BothSet(it) /\ fr <= to
                    /\ (HHMM(now) = HHMM(fr) \/ HHMM(now) = HHMM(to))) => e.available_now
              /\ (BothSet(it) /\ fr > to) => ~e.available_now

\* C9 amended: availability equals flag AND (both bounds set => available_from
\* <= now <= available_to) with now read to the second and each bound at its
\* second zero; the evaluation raises when the flag is true and both bounds are
\* set but one is no HH:MM time.  A false flag is never available; an unset
\* bound is no restriction; with available_from < available_to every instant in
\* the minute of available_from is available; in the minute of available_to
\* only second zero is available; available_from > available_to never matches.
C9_AvailabilityToTheSecond ==
    /\ (resp.op = "menu" /\ resp.code = "ok") =>
          \A k \in 1..Len(resp.listing) :
             LET e == resp.listing[k]
                 it == menu_items[e.id]
                 now == resp.at
                 fr == strptime(it.available_from).val
                 to == strptime(it.available_to).val
             IN  /\ e.available_now = (it.available /\ (BothSet(it) => (fr <= now /\ now <= to)))
                 /\ ~it.available => ~e.available_now
                 /\ (it.available /\ ~BothSet(it)) => e.available_now
                 /\ (it.available /\ BothSet(it) /\ fr < to /\ HHMM(now) = HHMM(fr)) => e.available_now
                 /\ (it.available /\ BothSet(it) /\ HHMM(now) = HHMM(to)) =>
                       (e.available_now <=> (now = to /\ fr <= to))
                 /\ (BothSet(it) /\ fr > to) => ~e.available_now
                 /\ (it.available /\ BothSet(it)) =>
                       (strptime(it.available_from).ok /\ strptime(it.available_to).ok)
    /\ (resp.op = "menu" /\ resp.code = "500") =>
          \E i \in 1..Len(menu_items) :
             /\ menu_items[i].available /\ BothSet(menu_items[i])
             /\ ~(strptime(menu_items[i].available_from).ok /\ strptime(menu_items[i].available_to).ok)

\* C9's case: thirty seconds into the minute of available_to an item with a
\* true flag is listed as unavailable.
C9_Witness ==
    /\ resp.op = "menu" /\ resp.code = "ok" /\ resp.at = Clock(15, 0, 30)
    /\ \E k \in 1..Len(resp.listing) :
          /\ menu_items[resp.listing[k].id].available
          /\ menu_items[resp.listing[k].id].available_to = Fifteen
          /\ menu_items[resp.listing[k].id].available_from = Eleven
          /\ ~resp.listing[k].available_now

(***************************************************************************)
(* Concurrent requests (SpecConc).  A handler that loads a row, decides on *)
(* the loaded copy and commits later runs in two steps, and other requests *)
(* may commit in between: the server handles requests in parallel and the  *)
(* handlers take no lock and add no condition to their UPDATE.  A request  *)
(* in flight carries the session it came with and the row it loaded.       *)
(***************************************************************************)
Request(handler, s, order_id, new_status) ==
    [handler |-> handler, sess |-> s, order_id |-> order_id, new_status |-> new_status,
     loaded |-> orders[order_id]]

Without(seq, k) == SubSeq(seq, 1, k - 1) \o SubSeq(seq, k + 1, Len(seq))

\* cancel_order up to o = Order.query.get_or_404(order_id), for a request that
\* passes the login check and finds the row.
cancel_order_load(c, order_id) ==
    /\ is_logged_in(session[c]) /\ ~is_admin(session[c])
    /\ Has(orders, order_id)
    /\ Len(inflight) < MaxInflight
    /\ inflight' = Append(inflight, Request("cancel_order", session[c], order_id, ""))
    /\ UNCHANGED <<db, session, resp>>

\* cancel_order from the owner check to the response: the checks read the
\* loaded copy, the commit writes the status by primary key.
cancel_order_finish(k) ==
    LET r == inflight[k] IN
    /\ r.handler = "cancel_order"
    /\ IF r.loaded.username # r.sess.username
       THEN Reply("cancel_order", "403") /\ UNCHANGED orders
       ELSE IF r.loaded.status # "Pending"
       THEN Reply("cancel_order", "400") /\ UNCHANGED orders
       ELSE /\ orders' = [orders EXCEPT ![r.order_id].status = "Cancelled"]
            /\ Reply("cancel_order", "ok")
    /\ inflight' = Without(inflight, k)
    /\ UNCHANGED <<users, menu_items, feedbacks, session>>

\* admin_update_order up to order = Order.query.get(oid), for a request that
\* passes the admin check, carries both fields and finds the row.
admin_update_order_load(c, oid, new_status) ==
    /\ is_logged_in(session[c]) /\ is_admin(session[c])
    /\ oid # None /\ new_status # ""
    /\ ParseInt(oid).ok /\ Has(orders, ParseInt(oid).val)
    /\ Len(inflight) < MaxInflight
    /\ inflight' = Append(inflight, Request("admin_update_order", session[c], ParseInt(oid).val, new_status))
    /\ UNCHANGED <<db, session, resp>>

\* admin_update_order from order.status = new_status to the response: the
\* commit writes the status by primary key when the assignment changed the
\* loaded copy (an unchanged attribute emits no UPDATE).
admin_update_order_finish(k) ==
    LET r == inflight[k] IN
    /\ r.handler = "admin_update_order"
    /\ orders' = IF r.new_status # r.loaded.status
                 THEN [orders EXCEPT ![r.order_id].status = r.new_status]
                 ELSE orders
    /\ Reply("admin_update_order", "ok")
    /\ inflight' = Without(inflight, k)
    /\ UNCHANGED <<users, menu_items, feedbacks, session>>

NextConc ==
    \/ \E c \in Clients, r \in RegisterInputs : register(c, r[1], r[2])
    \/ \E c \in Clients, r \in LoginInputs : login(c, r[1], r[2])
    \/ \E c \in Clients : logout(c)
    \/ \E c \in Clients, picks \in TokenPicks({0}) :
          /\ Len(orders) < MaxLive
          /\ order_form(c, 1, Clock(12, 0, 0), HalfPastTwelve, PM, picks)
    \/ \E c \in Clients, o \in 1..MaxLive :
          \* one cancel at a time: the race is between a cancel and an update
          /\ \A k \in 1..Len(inflight) : inflight[k].handler # "cancel_order"
          /\ cancel_order_load(c, o)
    \/ \E k \in 1..Len(inflight) : cancel_order_finish(k)
    \/ \E c \in Clients, o \in 1..MaxLive, st \in {"Pending", "Preparing"} :
          admin_update_order_load(c, IdText(o), st)
    \/ \E k \in 1..Len(inflight) : admin_update_order_finish(k)

SpecConc == Init /\ [][NextConc]_vars

\* C5: each operation is one atomic unit against the store, so concurrent
\* cancelOrder and updateStatus on one order end as some serial order of the
\* two would: a cancel that reports success and writes Cancelled finds the
\* order Pending in the store at that moment, never a status an admin has
\* already changed away from Pending.
C5_CancelIsAtomic ==
    [][\A k \in 1..Len(inflight) :
          (cancel_order_finish(k) /\ resp'.code = "ok") =>
             orders[inflight[k].order_id].status = "Pending"]_vars

(***************************************************************************)
(* The order form's fields (SpecForms): a student posts every kind of      *)
(* order_time and order_ampm text, the admin toggles the item's flag.      *)
(***************************************************************************)
TimeTexts ==
    {<<>>, <<" ">>, HalfPastTwelve, <<"a", "b", "c">>, <<" ", "9", ":", "1", "5", " ">>}

AmPmTexts == {<<>>, AM, PM, <<"X", "M">>, <<"p", "m">>, <<" ", "P", "M">>}

FormClocks == {Clock(12, 0, 0), Clock(15, 0, 30)}

NextForms ==
    \/ \E c \in Clients, r \in RegisterInputs : register(c, r[1], r[2])
    \/ \E c \in Clients, r \in LoginInputs : login(c, r[1], r[2])
    \/ \E c \in Clients : logout(c)
    \/ \E c \in Clients, i \in 1..(MaxItems + 1), cur \in FormClocks,
          t \in TimeTexts, a \in AmPmTexts, picks \in TokenPicks({0}) :
          /\ Len(orders) < MaxLive
          /\ order_form(c, i, cur, t, a, picks)
    \/ \E c \in Clients, i \in 1..(MaxItems + 1) : admin_toggle_menu(c, i)

SpecForms == Init /\ [][NextForms]_vars

\* C11: placeOrder by a student on an item that is available at call time
\* answers "invalid" (InvalidInput) and leaves the orders unchanged whenever the
\* pickup time is missing or is no HH:MM time of day, or the AM/PM designator
\* is missing or is neither AM nor PM.
C11_BadPickupRejected ==
    [][resp'.op = "order_form" =>
          \A c \in Clients, i \in 1..Len(menu_items), cur \in FormClocks,
             t \in TimeTexts, a \in AmPmTexts, picks \in TokenPicks({0}) :
             (/\ order_form(c, i, cur, t, a, picks)
              /\ is_logged_in(session[c]) /\ ~is_admin(session[c])
              /\ in_availability(menu_items[i], cur) = "True"
              /\ (~strptime(Strip(t)).ok \/ Strip(a) \notin {AM, PM})) =>
                resp'.code = "invalid" /\ orders' = orders]_vars


(***************************************************************************)
(* The polling APIs and the admin's status form (SpecListing).             *)
(***************************************************************************)
MaxListed == 2       \* rows of the order table (SpecListing)

\* The dict api_orders appends to out for the order with key o (created_at is
\* not modelled; the rows keep their insertion order instead).
api_orders_out(o) ==
    [id |-> o, item_name |-> orders[o].item_name, total_price |-> orders[o].total_price,
     pickup_time |-> orders[o].pickup_time, status |-> orders[o].status,
     payment_status |-> orders[o].payment_status, token |-> orders[o].token]

\* The dict api_admin_orders appends to out: the same with the owner.
api_admin_orders_out(o) ==
    [id |-> o, username |-> orders[o].username, item_name |-> orders[o].item_name,
     total_price |-> orders[o].total_price, pickup_time |-> orders[o].pickup_time,
     status |-> orders[o].status, payment_status |-> orders[o].payment_status,
     token |-> orders[o].token]

\* GET /api/orders
api_orders(c) ==
    LET s == session[c]
        rows == orders_of(s.username, Len(orders))
    IN
    /\ IF ~is_logged_in(s) \/ is_admin(s)
       THEN Reply("api_orders", "403")
       ELSE resp' = [Response("api_orders", "ok") EXCEPT
                        !.listing = [k \in 1..Len(rows) |-> api_orders_out(rows[k])]]
    /\ UNCHANGED <<db, session, inflight>>

\* GET /api/admin/orders: every order, newest first.
api_admin_orders(c) ==
    LET s == session[c]
        n == Len(orders)
    IN
    /\ IF ~is_logged_in(s) \/ ~is_admin(s)
       THEN Reply("api_admin_orders", "403")
       ELSE resp' = [Response("api_admin_orders", "ok") EXCEPT
                        !.listing = [k \in 1..n |-> api_admin_orders_out(n + 1 - k)]]
    /\ UNCHANGED <<db, session, inflight>>

NextListing ==
    \/ \E c \in Clients, r \in RegisterInputs : register(c, r[1], r[2])
    \/ \E c \in Clients, r \in LoginInputs : login(c, r[1], r[2])
    \/ \E c \in Clients : logout(c)
    \/ \E c \in Clients, picks \in TokenPicks({0}) :
          /\ Len(orders) < MaxListed
          /\ order_form(c, 1, Clock(12, 0, 0), HalfPastTwelve, PM, picks)
    \/ \E c \in Clients, r \in UpdateInputs(1..(MaxListed + 1)) : admin_update_order(c, r[1], r[2])
    \/ \E c \in Clients : api_orders(c)
    \/ \E c \in Clients : api_admin_orders(c)

SpecListing == Init /\ [][NextListing]_vars

\* C12: updateStatus with a known status by an admin on an existing order sets
\* exactly that order's status to the requested value, whatever the current
\* status; for a missing order it answers not found and for a non-admin it is
\* refused (the redirect to login), the orders unchanged in both cases.  The
\* admin listing returns every order and the owner's listing returns exactly
\* the owner's orders, each with the status the store holds at that moment.
C12_UpdateStatusSets ==
    [][/\ resp'.op = "admin_update_order" =>
             \A c \in Clients, o \in 1..(MaxListed + 1), st \in KnownStatuses :
                admin_update_order(c, IdText(o), st) =>
                   IF ~is_admin(session[c])
                   THEN resp'.code = "login" /\ orders' = orders
                   ELSE IF o \notin 1..Len(orders)
                   THEN resp'.code = "404" /\ orders' = orders
                   ELSE /\ resp'.code = "ok"
                        /\ orders' = [orders EXCEPT ![o].status = st]
       /\ (resp'.op = "api_admin_orders" /\ resp'.code = "ok") =>
             /\ {resp'.listing[k].id : k \in 1..Len(resp'.listing)} = 1..Len(orders)
             /\ Len(resp'.listing) = Len(orders)
             /\ \A k \in 1..Len(resp'.listing) :
                   resp'.listing[k].status = orders[resp'.listing[k].id].status
       /\ (resp'.op = "api_orders" /\ resp'.code = "ok") =>
             \A c \in Clients :
                api_orders(c) =>
                   LET mine == {o \in 1..Len(orders) : orders[o].username = session[c].username} IN
                   /\ {resp'.listing[k].id : k \in 1..Len(resp'.listing)} = mine
                   /\ Len(resp'.listing) = Cardinality(mine)
                   /\ \A k \in 1..Len(resp'.listing) :
                         resp'.listing[k].status = orders[resp'.listing[k].id].status]_vars

\* C12's case: the owner's listing shows an order the admin has set to Ready
\* next to one the admin took from Pending straight to Completed.
C12_Witness ==
    /\ resp.op = "api_orders" /\ resp.code = "ok"
    /\ Len(resp.listing) = 2
    /\ resp.listing[1].status = "Ready"
    /\ resp.listing[2].status = "Completed"


(***************************************************************************)
(* Frame properties of the handlers (Spec).                                *)
(***************************************************************************)
\* C13: an order's snapshot is immutable: no step removes an order, and every
\* step leaves each existing order's owner, item name, total_price, pickup
\* time and token as they were; only status and payment_status may change.
C13_SnapshotImmutable ==
    [][/\ Len(orders') >= Len(orders)
       /\ \A o \in 1..Len(orders) :
             /\ orders'[o].username = orders[o].username
             /\ orders'[o].item_name = orders[o].item_name
             /\ orders'[o].total_price = orders[o].total_price
             /\ orders'[o].pickup_time = orders[o].pickup_time
             /\ orders'[o].token = orders[o].token]_vars

\* C13's case: an order that was paid and set to Ready, after the admin added
\* an item and switched the ordered item off and the owner left feedback.
C13_Witness ==
    /\ resp.op = "submit_feedback" /\ resp.code = "ok"
    /\ Len(orders) = 1 /\ orders[1].payment_status = "Paid" /\ orders[1].status = "Ready"
    /\ orders[1].total_price = 120
    /\ Len(menu_items) = 2 /\ ~menu_items[1].available


(***************************************************************************)
(* Feedback and the average rating (SpecFeedback): one student rates item  *)
(* 1 with every rating text and item 2 with a five, and opens the menu.    *)
(***************************************************************************)
MaxRatings == 5      \* rows of the feedback table (SpecFeedback)

\* <<item id, rating field>>
FeedbackInputs ==
    {<<1, <<"1">>>>, <<1, <<"2">>>>, <<1, <<"3">>>>, <<1, <<"4">>>>, <<1, <<"5">>>>, <<2, <<"5">>>>,
     <<1, <<"0">>>>, <<1, <<"6">>>>, <<1, <<"-", "1">>>>, <<1, None>>, <<1, <<"x">>>>}

NextFeedback ==
    \/ \E c \in Clients : register(c, alice, pw)
    \/ \E c \in Clients, r \in LoginInputs : login(c, r[1], r[2])
    \/ \E c \in Clients, r \in FeedbackInputs :
          /\ Len(feedbacks) < MaxRatings
          /\ submit_feedback(c, r[1], r[2], <<>>)
    \/ \E c \in Clients : menu(c, Clock(12, 0, 0))

SpecFeedback == Init /\ [][NextFeedback]_vars

\* C14: submitFeedback by a student with a rating outside 1..5 (a missing
\* rating counts as 0) answers "invalid" and stores nothing; with a rating in
\* 1..5 it appends exactly one record, with that item, user and rating, and
\* leaves every earlier record as it was; a rating text that is no integer
\* stores nothing either.  No other step changes the feedback table, so each
\* item's records are its successful submissions, and every stored rating is
\* in 1..5.
C14_FeedbackAppendOnly ==
    [][/\ resp'.op = "submit_feedback" =>
             \A c \in Clients, r \in FeedbackInputs :
                (/\ submit_feedback(c, r[1], r[2], <<>>)
                 /\ is_logged_in(session[c]) /\ ~is_admin(session[c])) =>
                   LET rating == IF r[2] = None THEN [ok |-> TRUE, val |-> 0] ELSE ParseInt(r[2]) IN
                   IF rating.ok /\ rating.val \in 1..5
                   THEN /\ resp'.code = "ok"
                        /\ Len(feedbacks') = Len(feedbacks) + 1
                        /\ \A i \in 1..Len(feedbacks) : feedbacks'[i] = feedbacks[i]
                        /\ feedbacks'[Len(feedbacks')].item_id = r[1]
                        /\ feedbacks'[Len(feedbacks')].username = session[c].username
                        /\ feedbacks'[Len(feedbacks')].rating = rating.val
                   ELSE /\ rating.ok => resp'.code = "invalid"
                        /\ feedbacks' = feedbacks
       /\ (resp'.op # "submit_feedback" \/ resp'.code # "ok") => feedbacks' = feedbacks
       /\ \A i \in 1..Len(feedbacks') : feedbacks'[i].rating \in 1..5]_vars

\* C14's case: a second rating by the same user for the same item was stored
\* next to the first, which kept its different rating.
C14_Witness ==
    /\ resp.op = "submit_feedback" /\ resp.code = "ok"
    /\ Len(feedbacks) = 2
    /\ feedbacks[1].item_id = feedbacks[2].item_id
    /\ feedbacks[1].username = feedbacks[2].username
    /\ feedbacks[1].rating = 1 /\ feedbacks[2].rating = 5

\* The ratings stored for item_id among the first n feedback rows, summed.
RECURSIVE RatingSum(_, _)
RatingSum(item_id, n) ==
    IF n = 0 THEN 0
    ELSE (IF feedbacks[n].item_id = item_id THEN feedbacks[n].rating ELSE 0)
         + RatingSum(item_id, n - 1)

RatingCount(item_id) == Cardinality({i \in 1..Len(feedbacks) : feedbacks[i].item_id = item_id})

\* C18: on the menu page an item without feedback carries the "no rating"
\* sentinel None, which is not the number zero; an item with feedback carries
\* the mean of all ratings stored for that item and of no other item's,
\* rounded to hundredths (the value h with |mean - h/100| < 1/200): ratings
\* 3 and 5 give 4.00 and ratings 1, 2, 3, 4, 5 give 3.00.
C18_AverageRating ==
    (resp.op = "menu" /\ resp.code = "ok") =>
       \A k \in 1..Len(resp.listing) :
          LET e == resp.listing[k]
              n == RatingCount(e.id)
              total == RatingSum(e.id, Len(feedbacks))
          IN  /\ n = 0 => (e.avg_rating = None /\ e.avg_rating # <<0>>)
              /\ n > 0 =>
                    /\ Len(e.avg_rating) = 1
                    /\ (2 * e.avg_rating[1] - 1) * n < 200 * total
                    /\ 200 * total < (2 * e.avg_rating[1] + 1) * n
              /\ (n = 2 /\ total = 8) => e.avg_rating = <<400>>
              /\ (n = 5 /\ total = 15) => e.avg_rating = <<300>>

\* C18's case: the menu shows 3.00 for an item rated 1, 2, 3, 4 and 5.
C18_Witness ==
    /\ resp.op = "menu" /\ resp.code = "ok"
    /\ Len(feedbacks) = 5
    /\ \A i \in 1..5 : feedbacks[i].item_id = 1
    /\ {feedbacks[i].rating : i \in 1..5} = 1..5
    /\ resp.listing[1].avg_rating = <<300>>


(***************************************************************************)
(* The admin's item form (SpecMenu): every kind of name and price text.    *)
(***************************************************************************)
NameTexts == {Tea, <<" ">>, <<>>}

PriceTexts == {<<"1", "0">>, <<" ", "7">>, <<"0">>, <<"-", "5">>, <<"x">>, <<>>}

NextMenu ==
    \/ \E c \in Clients, r \in RegisterInputs : register(c, r[1], r[2])
    \/ \E c \in Clients, r \in LoginInputs : login(c, r[1], r[2])
    \/ \E c \in Clients : logout(c)
    \/ \E c \in Clients, n \in NameTexts, p \in PriceTexts : admin_menu(c, n, p, None, None)
    \/ \E c \in Clients, i \in 1..(MaxItems + 1) : admin_toggle_menu(c, i)

SpecMenu == Init /\ [][NextMenu]_vars

\* C15: addItem by an admin answers "invalid" and adds no item when the name
\* is empty or the price is not a positive number; otherwise it adds one item
\* whose flag is true.  Every stored item's price is non-negative.
C15_AddItemValidates ==
    [][/\ resp'.op = "admin_menu" =>
             \A c \in Clients, n \in NameTexts, p \in PriceTexts :
                (admin_menu(c, n, p, None, None) /\ is_admin(session[c])) =>
                   IF Strip(n) = <<>> \/ ~ParseFloat(p).ok \/ ParseFloat(p).val <= 0
                   THEN resp'.code = "invalid" /\ menu_items' = menu_items
                   ELSE /\ resp'.code = "ok"
                        /\ Len(menu_items') = Len(menu_items) + 1
                        /\ menu_items'[Len(menu_items')].available
       /\ \A i \in 1..Len(menu_items') : menu_items'[i].price >= 0]_vars


(***************************************************************************)
(* Stored bounds (SpecAvail).                                              *)
(***************************************************************************)
\* C16: every stored item whose available_from and available_to are both set
\* has both of them valid HH:MM times, and no evaluation of availability
\* (the menu page, the order form) ends in an error.
C16_BoundsValid ==
    /\ \A i \in 1..Len(menu_items) :
          BothSet(menu_items[i]) =>
             strptime(menu_items[i].available_from).ok /\ strptime(menu_items[i].available_to).ok
    /\ resp.op \in {"menu", "order_form"} => resp.code # "500"


(***************************************************************************)
(* The accounts (Spec).                                                    *)
(***************************************************************************)
\* C17: in every reachable state exactly one user has the role admin; a
\* registration adds only accounts of role user, and no step changes or
\* removes an existing account, repeated initialization included.
C17_ExactlyOneAdmin ==
    /\ [](Cardinality({i \in 1..Len(users) : users[i].role = "admin"}) = 1)
    /\ [][/\ Len(users') >= Len(users)
          /\ \A i \in 1..Len(users) : users'[i] = users[i]
          /\ \A i \in (Len(users) + 1)..Len(users') :
                resp'.op = "register" /\ users'[i].role = "user"]_vars

\* C17's case: initialization ran again after two students had registered.
C17_Witness ==
    /\ resp.op = "init_db"
    /\ Len(users) = 3
    /\ users[2].role = "user" /\ users[3].role = "user"


(***************************************************************************)
(* The availability flag (Spec).                                           *)
(***************************************************************************)
\* The menu ms with the flag of item i flipped and nothing else changed.
Toggled(ms, i) == [ms EXCEPT ![i].available = ~ms[i].available]

\* C19: toggleAvailability by an admin on an existing item flips that item's
\* flag and changes nothing else of the menu, the orders or the feedback, and
\* a second toggle of the same item right after it gives back the menu it
\* started from; for a missing item it answers not found and for a non-admin
\* it is refused, and in both cases nothing changes.
C19_ToggleFlipsOne ==
    [][resp'.op = "admin_toggle_menu" =>
          \A c \in Clients, i \in 1..(MaxItems + 1) :
             admin_toggle_menu(c, i) =>
                /\ orders' = orders /\ feedbacks' = feedbacks /\ users' = users
                /\ IF ~is_admin(session[c])
                   THEN resp'.code = "login" /\ menu_items' = menu_items
                   ELSE IF i \notin 1..Len(menu_items)
                   THEN resp'.code = "404" /\ menu_items' = menu_items
                   ELSE /\ resp'.code = "ok"
                        /\ menu_items' = Toggled(menu_items, i)
                        /\ Toggled(menu_items', i) = menu_items]_vars

\* C19's case: a toggle that switched the only item back on, with an order
\* and a feedback record in the store.
C19_Witness ==
    /\ resp.op = "admin_toggle_menu" /\ resp.code = "ok"
    /\ Len(menu_items) = 1 /\ menu_items[1].available
    /\ Len(orders) = 1 /\ Len(feedbacks) = 1


====
